---------------------------- MODULE Spec2Model ----------------------------
(***************************************************************************)
(* Model of uber_dashboard.py: the load-and-clean step (load_data), the    *)
(* filter composition (apply_filters), the aggregations behind the KPIs    *)
(* and charts, and the control flow of main.                               *)
(*                                                                         *)
(* Representation.                                                         *)
(*   - A DataFrame is a sequence of rows; a row is a function from column  *)
(*     name to cell.  An empty DataFrame is << >>.                         *)
(*   - A raw CSV cell is a string; the empty string is a missing cell,     *)
(*     which read_csv turns into NaN.  In a string column NaN stays "".    *)
(*   - A nullable number is << >> (NaN) or <<v>>.                          *)
(*   - A nullable timestamp is << >> (NaT) or <<[day, hour]>>.             *)
(*   - Fares, distances and durations are integers; a mean is kept as an   *)
(*     exact ratio.  Floating-point rounding is not modelled.              *)
(*   - Column headers are taken as already stripped (columns.str.strip()), *)
(*     and trip_id is left out: nothing below reads more of it than the    *)
(*     number of rows.                                                     *)
(***************************************************************************)
EXTENDS Integers, Sequences, FiniteSets, TLC

VARIABLES pc, csv, df, criteria, filtered_df, view

vars == <<pc, csv, df, criteria, filtered_df, view>>

(***************************************************************************)
(* Bounds of the model.                                                    *)
(***************************************************************************)
MaxRawRows == 2

MaxTrips == 2

MaxRankedTrips == 12

(***************************************************************************)
(* Null values.                                                            *)
(***************************************************************************)
NaN == << >>

NaT == << >>

\* pd.isna on a nullable number or timestamp, and on a cell of a string column
isna(x) == x = << >>

isna_str(cell) == cell = ""

(***************************************************************************)
(* Literals the parsers understand.  Every other string fails to parse.    *)
(***************************************************************************)
NumberLiterals ==
    [s \in {"5", "25", "30", "50", "100", "999"} |->
        CASE s = "5"   -> 5
          [] s = "25"  -> 25
          [] s = "30"  -> 30
          [] s = "50"  -> 50
          [] s = "100" -> 100
          [] s = "999" -> 999]

DateLiterals ==
    [s \in {"2024-01-01", "2024-01-01 13:00", "2024-01-02"} |->
        CASE s = "2024-01-01"       -> [day |-> 1, hour |-> 0]
          [] s = "2024-01-01 13:00" -> [day |-> 1, hour |-> 13]
          [] s = "2024-01-02"       -> [day |-> 2, hour |-> 0]]

\* pd.to_numeric(cell, errors='coerce') on one cell
to_numeric(cell) ==
    IF cell \in DOMAIN NumberLiterals THEN <<NumberLiterals[cell]>> ELSE NaN

\* pd.to_datetime on one cell can raise
date_parses(cell) == cell = "" \/ cell \in DOMAIN DateLiterals

\* the timestamp pd.to_datetime gives one cell: NaT for a missing cell (and for
\* a cell that does not parse, where load_raises says the call raises instead)
to_datetime(cell) ==
    IF cell \in DOMAIN DateLiterals THEN <<DateLiterals[cell]>> ELSE NaT

(***************************************************************************)
(* load_data                                                               *)
(***************************************************************************)
\* df.rename(columns=column_mapping): 'Booking Status' is not in the mapping
rename_columns(r) ==
    [status         |-> r["Booking Status"],
     date           |-> r["Date"],
     pickup         |-> r["Pickup Location"],
     dropoff        |-> r["Drop Location"],
     fare           |-> r["Booking Value"],
     distance_miles |-> r["Ride Distance"],
     vehicle_type   |-> r["Vehicle Type"],
     payment_type   |-> r["Payment Method"],
     duration_min   |-> r["Avg CTAT"]]

\* df['date'] = pd.to_datetime(df['date'])
convert_dates(d) ==
    LET conv(r) == [r EXCEPT !.date = to_datetime(r.date)]
    IN  [i \in 1..Len(d) |-> conv(d[i])]

\* df[df['Booking Status'] == 'Completed']
completed_only_anycase(d) ==
    LET keep(r) == r.status \in {"Completed", "completed"}
    IN  SelectSeq(d, keep)

completed_only(d) ==
    LET keep(r) == r.status = "Completed"
    IN  SelectSeq(d, keep)

\* the three pd.to_numeric(..., errors='coerce') assignments
clean_numeric(d) ==
    LET conv(r) == [r EXCEPT !.fare = to_numeric(r.fare),
                             !.distance_miles = to_numeric(r.distance_miles),
                             !.duration_min = to_numeric(r.duration_min)]
    IN  [i \in 1..Len(d) |-> conv(d[i])]

\* df.dropna(subset=['fare'])
dropna_fare_keep_all(d) == d

dropna_fare(d) ==
    LET keep(r) == ~isna(r.fare)
    IN  SelectSeq(d, keep)

fillna(cell, value) == IF isna_str(cell) THEN value ELSE cell

\* the four fillna('Unknown') assignments
fill_unknown_locations_only(d) ==
    LET fill(r) == [r EXCEPT !.pickup = fillna(r.pickup, "Unknown"),
                             !.dropoff = fillna(r.dropoff, "Unknown")]
    IN  [i \in 1..Len(d) |-> fill(d[i])]

fill_unknown(d) ==
    LET fill(r) == [r EXCEPT !.pickup = fillna(r.pickup, "Unknown"),
                             !.dropoff = fillna(r.dropoff, "Unknown"),
                             !.payment_type = fillna(r.payment_type, "Unknown"),
                             !.vehicle_type = fillna(r.vehicle_type, "Unknown")]
    IN  [i \in 1..Len(d) |-> fill(d[i])]

\* whether the body of the try block raises: read_csv on a missing file, or
\* pd.to_datetime on a cell it cannot parse
load_raises(file) ==
    \/ ~file.exists
    \/ \E i \in 1..Len(file.rows) : ~date_parses(file.rows[i]["Date"])

\* the value load_data returns for the file it reads
load_data(file) ==
    IF load_raises(file)
    THEN << >>
    ELSE LET renamed == [i \in 1..Len(file.rows) |-> rename_columns(file.rows[i])]
         IN  fill_unknown(dropna_fare(clean_numeric(
                 completed_only(convert_dates(renamed)))))

(***************************************************************************)
(* apply_filters                                                           *)
(***************************************************************************)
\* Series.dt.date on one timestamp: the calendar day, the time of day dropped
dt_date(ts) == ts.day

\* Python truthiness of a list argument that may be None
truthy(filter) == filter.given /\ filter.items # {}

\* (date >= start_date) & (date <= end_date): a NaT compares False
date_mask(r, date_range) ==
    /\ ~isna(r.date)
    /\ dt_date(r.date[1]) >= date_range[1]
    /\ dt_date(r.date[1]) <= date_range[2]

\* one of the three "if f and 'All' not in f: df[df[col].isin(f)]" blocks
isin_filter_when_given(d, column, filter) ==
    IF filter.given /\ "All" \notin filter.items
    THEN LET keep(r) == r[column] \in filter.items IN SelectSeq(d, keep)
    ELSE d

isin_filter(d, column, filter) ==
    IF truthy(filter) /\ "All" \notin filter.items
    THEN LET keep(r) == r[column] \in filter.items IN SelectSeq(d, keep)
    ELSE d

\* the "if date_range:" block
date_filter(d, date_range) ==
    IF Len(date_range) > 0
    THEN LET keep(r) == date_mask(r, date_range) IN SelectSeq(d, keep)
    ELSE d

\* "start_date, end_date = date_range" raises unless the tuple has two items
apply_filters_raises(date_range) == Len(date_range) \notin {0, 2}

apply_filters_drop_last(d, date_range, pickup_filter, dropoff_filter, vehicle_filter) ==
    LET out == isin_filter(isin_filter(isin_filter(date_filter(d, date_range),
                   "pickup", pickup_filter),
                   "dropoff", dropoff_filter),
                   "vehicle_type", vehicle_filter)
    IN  IF out = << >> THEN out ELSE SubSeq(out, 1, Len(out) - 1)

apply_filters(d, date_range, pickup_filter, dropoff_filter, vehicle_filter) ==
    isin_filter(isin_filter(isin_filter(date_filter(d, date_range),
        "pickup", pickup_filter),
        "dropoff", dropoff_filter),
        "vehicle_type", vehicle_filter)

(***************************************************************************)
(* Aggregations                                                            *)
(***************************************************************************)
RECURSIVE SumSkipNa(_)
\* Series.sum(): NaN entries are skipped, the sum of nothing is 0
SumSkipNa(cells) ==
    IF cells = << >> THEN 0
    ELSE (IF isna(Head(cells)) THEN 0 ELSE Head(cells)[1]) + SumSkipNa(Tail(cells))

CountNotNa(cells) == Cardinality({i \in 1..Len(cells) : ~isna(cells[i])})

\* A mean is kept exact, as numerator and denominator; NaN is 0/0.
Ratio(n, d) == [num |-> n, den |-> d]

IsNaNRatio(q) == q.den = 0

\* Series.mean(): NaN entries are skipped, the mean of nothing is NaN
Mean(cells) == Ratio(SumSkipNa(cells), CountNotNa(cells))

Column(d, column) == [i \in 1..Len(d) |-> d[i][column]]

create_kpi_metrics_unguarded(d) ==
    <<Len(d), SumSkipNa(Column(d, "fare")), Mean(Column(d, "fare")),
      SumSkipNa(Column(d, "distance_miles")), Mean(Column(d, "duration_min"))>>

create_kpi_metrics(d) ==
    IF d = << >>
    THEN <<0, 0, Ratio(0, 1), 0, Ratio(0, 1)>>
    ELSE <<Len(d), SumSkipNa(Column(d, "fare")), Mean(Column(d, "fare")),
           SumSkipNa(Column(d, "distance_miles")), Mean(Column(d, "duration_min"))>>

\* Every category and location name of the model, in the order Python
\* compares strings: groupby returns its groups sorted by key.
SortedNames ==
    <<"A", "Auto", "B", "Bike", "C", "Cash",
      "L01", "L02", "L03", "L04", "L05", "L06", "L07", "L08", "L09", "L10", "L11",
      "UPI", "Unknown", "X", "Y">>

\* df.groupby(column)['fare'].sum().reset_index(): one row per key that occurs,
\* sorted by key; rows whose key is NaN are in no group (dropna=True)
groupby_fare_sum(d, column) ==
    LET present(k) == \E i \in 1..Len(d) : d[i][column] = k
        keys == SelectSeq(SortedNames, present)
        group(k) == LET in_group(r) == r[column] = k IN SelectSeq(d, in_group)
    IN  [n \in 1..Len(keys) |->
            [key |-> keys[n], fare |-> SumSkipNa(Column(group(keys[n]), "fare"))]]

\* the frame behind the donut chart; an empty Figure has no slices
create_donut_chart(d, column) ==
    IF d = << >> THEN << >> ELSE groupby_fare_sum(d, column)

RECURSIVE Ascending(_)
\* the members of a finite set of integers, smallest first
Ascending(S) ==
    IF S = {} THEN << >>
    ELSE LET m == CHOOSE x \in S : \A y \in S : x <= y
         IN  <<m>> \o Ascending(S \ {m})

\* df.groupby(df['date'].dt.date)['fare'].sum().reset_index(): one row per day
\* that occurs, days ascending; rows whose date is NaT are in no group
create_trend_chart(d) ==
    IF d = << >> THEN << >>
    ELSE LET dated(r) == ~isna(r.date)
             days == Ascending({dt_date(d[i].date[1]) :
                                   i \in {j \in 1..Len(d) : dated(d[j])}})
             on(day) == LET same(r) == dated(r) /\ dt_date(r.date[1]) = day
                        IN  SelectSeq(d, same)
         IN  [n \in 1..Len(days) |->
                 [date |-> days[n],
                  total_fare |-> SumSkipNa(Column(on(days[n]), "fare"))]]

RECURSIVE SortedFrom(_, _, _, _)
\* the rows of frame with index in left, largest value of column first; rows
\* with equal values come in frame order, or in the reverse of it
SortedFrom(frame, column, left, ties_reversed) ==
    IF left = {} THEN << >>
    ELSE LET before(i, j) ==
                 \/ frame[i][column] > frame[j][column]
                 \/ /\ frame[i][column] = frame[j][column]
                    /\ IF ties_reversed THEN i >= j ELSE i <= j
             top == CHOOSE i \in left : \A j \in left : before(i, j)
         IN  <<frame[top]>> \o SortedFrom(frame, column, left \ {top}, ties_reversed)

\* frame.sort_values(column, ascending=False).  The default sort is quicksort,
\* which promises no order among equal values: ties_reversed picks one of two.
sort_values_descending(frame, column, ties_reversed) ==
    SortedFrom(frame, column, 1..Len(frame), ties_reversed)

\* frame.head(n)
head(frame, n) == SubSeq(frame, 1, IF Len(frame) < n THEN Len(frame) ELSE n)

\* the number of bars of a location chart: head(10)
TopLocations == 10

\* the frame behind a location bar chart
create_location_chart_unsorted(d, location_type, ties_reversed) ==
    IF d = << >> THEN << >>
    ELSE head(groupby_fare_sum(d, location_type), TopLocations)

create_location_chart(d, location_type, ties_reversed) ==
    IF d = << >> THEN << >>
    ELSE head(sort_values_descending(groupby_fare_sum(d, location_type),
                                     "fare", ties_reversed),
              TopLocations)

\* round(2) of n/d, in hundredths: numpy rounds a half to the even neighbour
round2(n, d) ==
    LET q == (100 * n) \div d
        r == (100 * n) % d
    IN  IF 2 * r < d THEN q
        ELSE IF 2 * r > d THEN q + 1
        ELSE IF q % 2 = 0 THEN q ELSE q + 1

\* the vehicle summary table: per vehicle type the number of trips, the summed
\* fare and the mean fare (in hundredths), largest summed fare first
create_vehicle_summary_table(d, ties_reversed) ==
    IF d = << >> THEN << >>
    ELSE LET sums == groupby_fare_sum(d, "vehicle_type")
             trips(k) == Cardinality({i \in 1..Len(d) : d[i].vehicle_type = k})
             table == [n \in 1..Len(sums) |->
                         [vehicle_type   |-> sums[n].key,
                          Total_Bookings |-> trips(sums[n].key),
                          Total_Value    |-> sums[n].fare,
                          Avg_Fare       |-> <<round2(sums[n].fare, trips(sums[n].key))>>]]
         IN  sort_values_descending(table, "Total_Value", ties_reversed)

(***************************************************************************)
(* main                                                                    *)
(***************************************************************************)
NotGiven == [given |-> FALSE, items |-> {}]

List(items) == [given |-> TRUE, items |-> items]

NoCriteria ==
    [date_range |-> << >>, pickup_filter |-> NotGiven,
     dropoff_filter |-> NotGiven, vehicle_filter |-> NotGiven]

NoView ==
    [kpi |-> << >>, payment_chart |-> << >>, vehicle_chart |-> << >>,
     trend_chart |-> << >>, pickup_chart |-> << >>, dropoff_chart |-> << >>,
     vehicle_summary |-> << >>]

\* df[column].unique()
unique(d, column) == {d[i][column] : i \in 1..Len(d)}

has_nat(d) == \E i \in 1..Len(d) : isna(d[i].date)

\* the days of the rows that have one
days_of(d) == {dt_date(d[i].date[1]) : i \in {j \in 1..Len(d) : ~isna(d[j].date)}}

\* df = load_data()
LoadData ==
    /\ pc = "start"
    /\ df' = load_data(csv)
    /\ pc' = "loaded"
    /\ UNCHANGED <<csv, criteria, filtered_df, view>>

\* if df.empty: st.error("No data available..."); return
NoData ==
    /\ pc = "loaded"
    /\ df = << >>
    /\ pc' = "no_data"
    /\ UNCHANGED <<csv, df, criteria, filtered_df, view>>

\* The sidebar.  Series.min() and max() of the days are taken first: with a NaT
\* among the dates the object-dtype reduction may raise, and with nothing but
\* NaT there is no date to offer.  Otherwise the widgets return what the user
\* picked: date_input a tuple of up to two days of [min_date, max_date], each
\* multiselect a list of its options.
Sidebar ==
    /\ pc = "loaded"
    /\ df # << >>
    /\ \/ /\ has_nat(df)
          /\ pc' = "crashed"
          /\ UNCHANGED criteria
       \/ /\ days_of(df) # {}
          /\ LET min_date == CHOOSE x \in days_of(df) : \A y \in days_of(df) : x <= y
                 max_date == CHOOSE x \in days_of(df) : \A y \in days_of(df) : x >= y
                 picked == {<< >>} \cup {<<a>> : a \in min_date..max_date}
                             \cup {<<a, b>> : a \in min_date..max_date, b \in min_date..max_date}
             IN  \E range \in {t \in picked : Len(t) = 2 => t[1] <= t[2]},
                    pickups \in SUBSET ({"All"} \cup unique(df, "pickup")),
                    dropoffs \in SUBSET ({"All"} \cup unique(df, "dropoff")),
                    vehicles \in SUBSET ({"All"} \cup unique(df, "vehicle_type")) :
                     criteria' = [date_range |-> range,
                                  pickup_filter |-> List(pickups),
                                  dropoff_filter |-> List(dropoffs),
                                  vehicle_filter |-> List(vehicles)]
          /\ pc' = "apply"
    /\ UNCHANGED <<csv, df, filtered_df, view>>

\* filtered_df = apply_filters(df, date_range, pickup_filter, dropoff_filter,
\* vehicle_filter)
ApplyFilters ==
    /\ pc = "apply"
    /\ IF apply_filters_raises(criteria.date_range)
       THEN pc' = "crashed" /\ UNCHANGED filtered_df
       ELSE /\ filtered_df' = apply_filters(df, criteria.date_range,
                                  criteria.pickup_filter, criteria.dropoff_filter,
                                  criteria.vehicle_filter)
            /\ pc' = "filtered"
    /\ UNCHANGED <<csv, df, criteria, view>>

\* if filtered_df.empty: st.warning("No data matches..."); return
NoMatch ==
    /\ pc = "filtered"
    /\ filtered_df = << >>
    /\ pc' = "no_match"
    /\ UNCHANGED <<csv, df, criteria, filtered_df, view>>

StartRenderAlways ==
    /\ pc = "filtered"
    /\ pc' = "kpis"
    /\ UNCHANGED <<csv, df, criteria, filtered_df, view>>

\* filtered_df is not empty: main goes on to the KPIs
StartRender ==
    /\ pc = "filtered"
    /\ filtered_df # << >>
    /\ pc' = "kpis"
    /\ UNCHANGED <<csv, df, criteria, filtered_df, view>>

RenderKpis ==
    /\ pc = "kpis"
    /\ view' = [view EXCEPT !.kpi = create_kpi_metrics(filtered_df)]
    /\ pc' = "donuts"
    /\ UNCHANGED <<csv, df, criteria, filtered_df>>

RenderDonuts ==
    /\ pc = "donuts"
    /\ view' = [view EXCEPT
                   !.payment_chart = create_donut_chart(filtered_df, "payment_type"),
                   !.vehicle_chart = create_donut_chart(filtered_df, "vehicle_type")]
    /\ pc' = "trend"
    /\ UNCHANGED <<csv, df, criteria, filtered_df>>

RenderTrend ==
    /\ pc = "trend"
    /\ view' = [view EXCEPT !.trend_chart = create_trend_chart(filtered_df)]
    /\ pc' = "locations"
    /\ UNCHANGED <<csv, df, criteria, filtered_df>>

RenderLocations ==
    /\ pc = "locations"
    /\ \E t1 \in BOOLEAN, t2 \in BOOLEAN :
          view' = [view EXCEPT
                      !.pickup_chart = create_location_chart(filtered_df, "pickup", t1),
                      !.dropoff_chart = create_location_chart(filtered_df, "dropoff", t2)]
    /\ pc' = "summary"
    /\ UNCHANGED <<csv, df, criteria, filtered_df>>

\* The vehicle summary, then the sidebar's data info, whose min() and max() of
\* the days may raise with a NaT among the dates.
RenderSummary ==
    /\ pc = "summary"
    /\ \E t \in BOOLEAN :
          view' = [view EXCEPT
                      !.vehicle_summary = create_vehicle_summary_table(filtered_df, t)]
    /\ pc' \in (IF has_nat(filtered_df) THEN {"done", "crashed"} ELSE {"done"})
    /\ UNCHANGED <<csv, df, criteria, filtered_df>>

\* A widget changes and Streamlit runs main again from the top.
Rerun ==
    /\ pc \in {"done", "no_match"}
    /\ pc' = "start"
    /\ df' = << >>
    /\ criteria' = NoCriteria
    /\ filtered_df' = << >>
    /\ view' = NoView
    /\ UNCHANGED csv

(***************************************************************************)
(* Inputs                                                                  *)
(***************************************************************************)
RawRow(status, date, fare, pickup, dropoff, vehicle, payment, duration) ==
    [c \in {"Booking Status", "Date", "Booking Value", "Pickup Location",
            "Drop Location", "Vehicle Type", "Payment Method", "Ride Distance",
            "Avg CTAT"} |->
        CASE c = "Booking Status"  -> status
          [] c = "Date"            -> date
          [] c = "Booking Value"   -> fare
          [] c = "Pickup Location" -> pickup
          [] c = "Drop Location"   -> dropoff
          [] c = "Vehicle Type"    -> vehicle
          [] c = "Payment Method"  -> payment
          [] c = "Ride Distance"   -> "5"
          [] c = "Avg CTAT"        -> duration]

\* the tables of at most n rows drawn from rows
Tables(rows, n) == UNION {[1..k -> rows] : k \in 0..n}

File(rows) == [exists |-> TRUE, rows |-> rows]

MissingFile == [exists |-> FALSE, rows |-> << >>]

LoadRows ==
    {RawRow(s, d, f, p, "X", "Auto", "UPI", "30") :
        s \in {"Completed", "Cancelled", "completed"},
        d \in {"2024-01-01", "", "not-a-date"},
        f \in {"100", "999", "N/A", ""},
        p \in {"A", ""}}

(***************************************************************************)
(* SpecLoad: load_data on every file of at most MaxRawRows rows            *)
(***************************************************************************)
InitLoad ==
    /\ pc = "start"
    /\ csv \in {MissingFile} \cup {File(t) : t \in Tables(LoadRows, MaxRawRows)}
    /\ df = << >>
    /\ criteria = NoCriteria
    /\ filtered_df = << >>
    /\ view = NoView

SpecLoad == InitLoad /\ [][LoadData]_vars

\* the rows of the file, in file order, that are Completed with a fare that parses
CompletedWithFare ==
    Ascending({i \in 1..Len(csv.rows) :
                  /\ csv.rows[i]["Booking Status"] = "Completed"
                  /\ csv.rows[i]["Booking Value"] \in DOMAIN NumberLiterals})

\* C1: the dataset load_data returns holds no row whose Booking Status is not
\* exactly "Completed", and the count and fare total computed from it are
\* those of the Completed rows of the file alone (nothing, when the load
\* fails): a Cancelled row adds nothing.
C1_OnlyCompleted ==
    pc = "loaded" =>
        /\ \A i \in 1..Len(df) : df[i].status = "Completed"
        /\ create_kpi_metrics(df)[1] =
               (IF load_raises(csv) THEN 0 ELSE Len(CompletedWithFare))
        /\ create_kpi_metrics(df)[2] =
               (IF load_raises(csv) THEN 0
                ELSE SumSkipNa([n \in 1..Len(CompletedWithFare) |->
                    to_numeric(csv.rows[CompletedWithFare[n]]["Booking Value"])]))

C1_Witness ==
    /\ pc = "loaded"
    /\ df # << >>
    /\ \E i \in 1..Len(csv.rows) :
          /\ csv.rows[i]["Booking Status"] = "Cancelled"
          /\ csv.rows[i]["Booking Value"] = "999"

\* C2: every row load_data returns has a fare that is a number; a Completed row
\* whose fare is missing or does not parse is dropped, and when the load does
\* not fail every Completed row with a fare that parses is kept.
C2_FareNotNull ==
    pc = "loaded" =>
        /\ \A i \in 1..Len(df) : ~isna(df[i].fare) /\ df[i].fare[1] \in Int
        /\ ~load_raises(csv) => Len(df) = Len(CompletedWithFare)

C2_Witness ==
    /\ pc = "loaded"
    /\ Len(df) = 1
    /\ Len(csv.rows) = 2
    /\ \E i \in 1..Len(csv.rows) :
          /\ csv.rows[i]["Booking Status"] = "Completed"
          /\ csv.rows[i]["Booking Value"] = "N/A"

\* the file with every date cell that does not parse made a missing cell
WithBadDatesBlank ==
    [csv EXCEPT !.rows = [i \in 1..Len(csv.rows) |->
        IF date_parses(csv.rows[i]["Date"]) THEN csv.rows[i]
        ELSE [csv.rows[i] EXCEPT !["Date"] = ""]]]

\* C8 as claimed: a date that does not parse costs only the date of its row;
\* load_data returns what it returns for the same file with that date missing.
C8_BadDateIsRowLocal ==
    pc = "loaded" => df = load_data(WithBadDatesBlank)

(***************************************************************************)
(* SpecFilter: apply_filters on the canonical dataset of every file of at  *)
(* most MaxTrips rows, under every combination of the criteria below       *)
(***************************************************************************)
FilterRows ==
    {RawRow("Completed", d, "100", p, o, v, "UPI", "30") :
        d \in {"2024-01-01 13:00", "2024-01-02", ""},
        p \in {"A", "B"},
        o \in {"X", "Y"},
        v \in {"Auto", "Bike"}}

\* main's default for the date range: (min_date, max_date) of the dataset
default_date_range(d) ==
    IF days_of(d) = {} THEN << >>
    ELSE <<CHOOSE x \in days_of(d) : \A y \in days_of(d) : x <= y,
           CHOOSE x \in days_of(d) : \A y \in days_of(d) : x >= y>>

\* main's defaults for the four widgets
default_criteria(d) ==
    [date_range |-> default_date_range(d), pickup_filter |-> List({"All"}),
     dropoff_filter |-> List({"All"}), vehicle_filter |-> List({"All"})]

FilterCriteria ==
    [date_range     : {<< >>, <<1, 1>>, <<1, 2>>, <<2, 2>>, <<2, 1>>},
     pickup_filter  : {NotGiven, List({}), List({"All"}), List({"A"}), List({"All", "B"})},
     dropoff_filter : {NotGiven, List({"All"}), List({"Y"})},
     vehicle_filter : {List({}), List({"All"}), List({"Auto"})}]

InitFilter ==
    /\ pc = "apply"
    /\ csv \in {File(t) : t \in Tables(FilterRows, MaxTrips)}
    /\ df = load_data(csv)
    /\ criteria \in FilterCriteria
    /\ filtered_df = << >>
    /\ view = NoView

SpecFilter == InitFilter /\ [][ApplyFilters]_vars

\* the rows of d at the indices in keep, in the order of d
RowsAt(d, keep) ==
    LET idx == Ascending(keep) IN [n \in 1..Len(idx) |-> d[idx[n]]]

InDateRange(r) ==
    \/ criteria.date_range = << >>
    \/ /\ r.date # NaT
       /\ r.date[1].day >= criteria.date_range[1]
       /\ r.date[1].day <= criteria.date_range[2]

\* a category criterion as claimed: absent, "select all", or membership
InSetAsClaimed(cell, filter) ==
    \/ ~filter.given
    \/ "All" \in filter.items
    \/ cell \in filter.items

\* a category criterion as the code has it: an empty list selects all too
InSetOrEmpty(cell, filter) ==
    \/ ~filter.given
    \/ filter.items = {}
    \/ "All" \in filter.items
    \/ cell \in filter.items

\* C3 as claimed: the result is exactly the rows of the dataset, in its order,
\* that lie in the date range and are members of each explicit set, the empty
\* set included (of which no row is a member).
C3_ExactlyTheMembers ==
    pc = "filtered" =>
        filtered_df = RowsAt(df, {i \in 1..Len(df) :
            /\ InDateRange(df[i])
            /\ InSetAsClaimed(df[i].pickup, criteria.pickup_filter)
            /\ InSetAsClaimed(df[i].dropoff, criteria.dropoff_filter)
            /\ InSetAsClaimed(df[i].vehicle_type, criteria.vehicle_filter)})

\* C3 amended: the result is exactly the rows of the dataset, in its order, that
\* pass all four criteria, where an empty selection passes every row, as an
\* absent one and one holding 'All' do.
C3_ExactlyThePassing ==
    pc = "filtered" =>
        filtered_df = RowsAt(df, {i \in 1..Len(df) :
            /\ InDateRange(df[i])
            /\ InSetOrEmpty(df[i].pickup, criteria.pickup_filter)
            /\ InSetOrEmpty(df[i].dropoff, criteria.dropoff_filter)
            /\ InSetOrEmpty(df[i].vehicle_type, criteria.vehicle_filter)})

C3_Witness ==
    /\ pc = "filtered"
    /\ Len(df) = 2
    /\ Len(filtered_df) = 1
    /\ criteria.date_range = <<1, 1>>
    /\ criteria.pickup_filter = List({"A"})
    /\ criteria.dropoff_filter = List({"Y"})
    /\ criteria.vehicle_filter = List({})

\* the number of times row r occurs in d
Occurrences(d, r) == Cardinality({i \in 1..Len(d) : d[i] = r})

SameMultiset(d, e) ==
    /\ Len(d) = Len(e)
    /\ \A i \in 1..Len(d) : Occurrences(d, d[i]) = Occurrences(e, d[i])

\* C4 as claimed: under main's defaults, the date range (min_date, max_date) of
\* the dataset and ['All'] three times, the result has the records of the
\* dataset, each as often, a record with a null date included.
C4_DefaultsReturnAll ==
    (pc = "filtered" /\ days_of(df) # {} /\ criteria = default_criteria(df)) =>
        SameMultiset(filtered_df, df)

\* C10: filtering the result again with the same criteria changes nothing.
C10_Idempotent ==
    pc = "filtered" =>
        apply_filters(filtered_df, criteria.date_range, criteria.pickup_filter,
                      criteria.dropoff_filter, criteria.vehicle_filter) = filtered_df

C10_Witness ==
    /\ pc = "filtered"
    /\ Len(df) = 2
    /\ Len(filtered_df) = 1
    /\ criteria.date_range = <<2, 2>>
    /\ criteria.vehicle_filter = List({"Auto"})

(***************************************************************************)
(* SpecRender: the aggregations, from the KPIs on, applied to the          *)
(* canonical dataset of every file of RenderTables and of RankTables       *)
(***************************************************************************)
RenderRows ==
    {RawRow("Completed", "2024-01-02", f, p, "X", v, m, t) :
        f \in {"100", "25"}, p \in {"A", "B"}, v \in {"Auto", ""},
        m \in {"UPI", "Cash", ""}, t \in {"30", ""}}
    \cup {RawRow("Cancelled", "2024-01-02", "999", "A", "X", "Auto", "UPI", "30"),
          RawRow("Completed", "", "50", "", "", "Bike", "Cash", "30"),
          RawRow("Completed", "2024-01-01 13:00", "50", "B", "Y", "Bike", "Cash", "")}

LocationNames ==
    <<"L01", "L02", "L03", "L04", "L05", "L06", "L07", "L08", "L09", "L10", "L11">>

\* row k of a ranking table: pickups cycle through the eleven location names,
\* dropoffs through them at half the pace, and the fare is free
RankRow(k, fare) ==
    RawRow("Completed", "2024-01-02", fare,
           LocationNames[((k - 1) % Len(LocationNames)) + 1],
           LocationNames[(((k - 1) \div 2) % Len(LocationNames)) + 1],
           "Auto", "UPI", "30")

InitRender ==
    /\ pc = "kpis"
    /\ \/ csv = MissingFile
       \/ \E n \in 0..MaxTrips : \E t \in [1..n -> RenderRows] : csv = File(t)
       \/ \E n \in 1..MaxRankedTrips : \E fares \in [1..n -> {"25", "50"}] :
             csv = File([k \in 1..n |-> RankRow(k, fares[k])])
    /\ df = load_data(csv)
    /\ criteria = NoCriteria
    /\ filtered_df = apply_filters(df, << >>, NotGiven, NotGiven, NotGiven)
    /\ view = NoView

NextRender ==
    RenderKpis \/ RenderDonuts \/ RenderTrend \/ RenderLocations \/ RenderSummary

SpecRender == InitRender /\ [][NextRender]_vars

RECURSIVE FareOfRows(_, _)
\* the fares of the rows of d at the indices in rows, added up
FareOfRows(d, rows) ==
    IF rows = {} THEN 0
    ELSE LET i == CHOOSE x \in rows : TRUE
         IN  d[i].fare[1] + FareOfRows(d, rows \ {i})

RECURSIVE ChartTotal(_)
ChartTotal(chart) ==
    IF chart = << >> THEN 0 ELSE Head(chart).fare + ChartTotal(Tail(chart))

\* a breakdown of d by column that counts every row in exactly one slice
Partitions(chart, d, column) ==
    /\ ChartTotal(chart) = FareOfRows(d, 1..Len(d))
    /\ \A i \in 1..Len(d) :
          Cardinality({n \in 1..Len(chart) : chart[n].key = d[i][column]}) = 1
    /\ \A n \in 1..Len(chart) : \E i \in 1..Len(d) : d[i][column] = chart[n].key

\* C5: the slices of each revenue breakdown, by payment type and by vehicle
\* type, add up to the fare total of the dataset; every record is in exactly
\* one slice and no slice is without a record.
C5_BreakdownAddsUp ==
    pc \in {"trend", "locations", "summary", "done"} =>
        /\ Partitions(view.payment_chart, filtered_df, "payment_type")
        /\ Partitions(view.vehicle_chart, filtered_df, "vehicle_type")

C5_Witness ==
    /\ pc = "trend"
    /\ Len(view.payment_chart) = 2
    /\ \E n \in 1..2 : view.payment_chart[n].key = "Unknown"
    /\ \E i \in 1..Len(csv.rows) : csv.rows[i]["Payment Method"] = ""

\* a ranking of d by column: at most TopLocations entries, each a location
\* with the fares of its rows added up, largest first, and no location left
\* out has more than one that is in
Ranks(chart, d, column) ==
    /\ Len(chart) <= 10
    /\ \A n \in 1..Len(chart) :
          chart[n].fare = FareOfRows(d, {i \in 1..Len(d) : d[i][column] = chart[n].key})
    /\ \A n \in 1..Len(chart) : \E i \in 1..Len(d) : d[i][column] = chart[n].key
    /\ \A n, m \in 1..Len(chart) : n < m =>
          chart[n].fare >= chart[m].fare /\ chart[n].key # chart[m].key
    /\ \A i \in 1..Len(d) :
          (\A n \in 1..Len(chart) : chart[n].key # d[i][column]) =>
              \A n \in 1..Len(chart) :
                  chart[n].fare >=
                      FareOfRows(d, {j \in 1..Len(d) : d[j][column] = d[i][column]})

\* C6: each location ranking, by pickup and by dropoff, has at most 10
\* entries, each the summed fare of its location, in non-increasing order, and
\* no omitted location has a larger sum than a returned one.
C6_TopTenRanking ==
    pc \in {"summary", "done"} =>
        /\ Ranks(view.pickup_chart, filtered_df, "pickup")
        /\ Ranks(view.dropoff_chart, filtered_df, "dropoff")

C6_Witness ==
    /\ pc = "summary"
    /\ Cardinality(unique(filtered_df, "pickup")) = 11
    /\ Len(view.pickup_chart) = 10
    /\ view.pickup_chart[1].fare > view.pickup_chart[10].fare
    /\ view.pickup_chart[1].key # "L01"

\* C7: create_kpi_metrics on an empty dataset returns 0 five times, none of
\* them a NaN.
C7_EmptyKpisAreZero ==
    (pc = "donuts" /\ filtered_df = << >>) =>
        /\ view.kpi = <<0, 0, Ratio(0, 1), 0, Ratio(0, 1)>>
        /\ ~IsNaNRatio(view.kpi[3])
        /\ ~IsNaNRatio(view.kpi[5])

C7_Witness ==
    /\ pc = "donuts"
    /\ filtered_df = << >>
    /\ csv.exists
    /\ Len(csv.rows) = 2

(***************************************************************************)
(* Spec: runs of main over every file of at most MaxRawRows rows           *)
(***************************************************************************)
MainRows ==
    {RawRow(s, d, "100", p, "X", "Auto", "UPI", "30") :
        s \in {"Completed", "Cancelled"},
        d \in {"2024-01-01 13:00", "2024-01-02", "", "not-a-date"},
        p \in {"A", "B"}}

Init ==
    /\ pc = "start"
    /\ \/ csv = MissingFile
       \/ \E n \in 0..MaxRawRows : \E t \in [1..n -> MainRows] : csv = File(t)
    /\ df = << >>
    /\ criteria = NoCriteria
    /\ filtered_df = << >>
    /\ view = NoView

Next ==
    \/ LoadData
    \/ NoData
    \/ Sidebar
    \/ ApplyFilters
    \/ NoMatch
    \/ StartRender
    \/ RenderKpis
    \/ RenderDonuts
    \/ RenderTrend
    \/ RenderLocations
    \/ RenderSummary
    \/ Rerun

Spec == Init /\ [][Next]_vars

Rendering == pc \in {"kpis", "donuts", "trend", "locations", "summary", "done"}

\* C9: main reaches the KPIs and charts only with a canonical dataset and a
\* filtered dataset that are both non-empty.  After a load that failed or
\* left nothing, the run ends at "no data available" with no filter applied;
\* after a filter that left nothing of a non-empty dataset, it ends at "no
\* data matches", and neither of the two goes on to render.
C9_RenderOnlyNonEmpty ==
    /\ [](/\ Rendering => (df # << >> /\ filtered_df # << >>)
          /\ pc = "no_data" => (df = << >> /\ criteria = NoCriteria /\ filtered_df = << >>)
          /\ pc = "no_match" => (df # << >> /\ filtered_df = << >>)
          /\ pc \in {"apply", "filtered"} => df # << >>)
    /\ [][/\ (pc = "loaded" /\ df = << >>) => pc' = "no_data"
          /\ (pc = "filtered" /\ filtered_df = << >>) => pc' = "no_match"
          /\ pc = "no_data" => pc' = "no_data"
          /\ pc = "no_match" => ~Rendering']_vars

C9_Witness ==
    /\ pc = "no_match"
    /\ Len(df) = 2
    /\ criteria.date_range = <<2, 2>>
    /\ criteria.pickup_filter = List({"A"})

====
